---- MODULE Spec2Model ----
(***************************************************************************)
(* A model of pydap.handlers.binary.ssmi: the BinarySsmiHandler that       *)
(* serves the five gridded variables of a flat binary SSMI file.           *)
(*                                                                         *)
(* Conventions of the model                                                *)
(*  - a Python slice is a record [start, stop, step] of integers (the      *)
(*    query parser always fills the three fields); the numbers of a        *)
(*    hyperslab are not negative, so the inputs have start, stop and step  *)
(*    >= 0, and range(n)[s] is modelled for step >= 1 (step 0 raises);     *)
(*  - Python tuples and lists are sequences, so slices[0] of the source is *)
(*    slices[1] here; array positions stay 0-based;                        *)
(*  - a coordinate value is kept in eighths of a degree, the unit in which *)
(*    0.25 * (i+1) - 0.125 and 0.25 * j - 90.125 are integers (both are    *)
(*    exact in float32);                                                   *)
(*  - an optional array (the .data of a BaseType) is a set: {} is None and *)
(*    {a} is the array a;                                                  *)
(*  - a call returns [kind |-> "ok", value |-> v] or raises, which is      *)
(*    [kind |-> "error", type |-> t, var |-> name, count |-> n].           *)
(***************************************************************************)
EXTENDS Integers, Sequences, FiniteSets, TLC

VARIABLES
    file,       \* the content of self.filepath, read anew by every request
    dataset,    \* self.dataset: the .data of every variable of the handler
    request,    \* the call in progress or just made
    response    \* what that call returned or raised

vars == <<file, dataset, request, response>>

---------------------------------------------------------------------------
(* Bounds of the model *)

\* the largest step of a window
MaxStep == 2
\* the largest stop - start of a window
MaxSpan == 5

---------------------------------------------------------------------------
(* Grid geometry *)

LON_SIZE == 1440
LAT_SIZE == 720
PART_SIZE == 2
NUM_VARIABLES == 5
lonMax == 1439
latMax == 719

\* one plane of one variable, 1440 * 720 samples
PlaneSize == LON_SIZE * LAT_SIZE
\* the number of bytes of a complete file
FullSize == PlaneSize * NUM_VARIABLES * PART_SIZE

\* self.variables, in the order that gives the variable index
variables == <<"time", "wspd", "vapor", "cloud", "rain">>
VariableNames == {variables[n] : n \in 1..Len(variables)}
CoordinateNames == {"lat", "lon", "part_of_day"}

Min(a, b) == IF a < b THEN a ELSE b
Max(a, b) == IF a > b THEN a ELSE b

Ok(v) == [kind |-> "ok", value |-> v]
Raise(t, name, n) == [kind |-> "error", type |-> t, var |-> name, count |-> n]
Pending == [kind |-> "pending"]

---------------------------------------------------------------------------
(* The file: bytes_read[o] of a file f.  A file is one of a family of byte *)
(* patterns, told apart by a seed; size is the number of bytes it holds.   *)

FileByte(f, o) == ((o % 251) + f.seed) % 256

---------------------------------------------------------------------------
(* range(n)[s] of Python 2: the list of the indices a slice selects        *)

SliceStart(s, n) == IF s.start < 0 THEN Max(s.start + n, 0) ELSE Min(s.start, n)
SliceStop(s, n) == IF s.stop < 0 THEN Max(s.stop + n, 0) ELSE Min(s.stop, n)
SliceLen(s, n) ==
    IF SliceStop(s, n) > SliceStart(s, n)
    THEN ((SliceStop(s, n) - SliceStart(s, n) - 1) \div s.step) + 1
    ELSE 0
RangeSlice(n, s) == [m \in 1..SliceLen(s, n) |-> SliceStart(s, n) + (m - 1) * s.step]

---------------------------------------------------------------------------
(* The coordinate generators *)

\* 0.25 * (i+1) - 0.125, in eighths of a degree
LonValue(i) == 2 * (i + 1) - 1
\* 0.25 * j - 90.125, in eighths of a degree
LatValue(j) == 2 * j - 721

read_variable_lon_short(slices_lot) ==
    IF slices_lot.step = 0 THEN Raise("ValueError", "", 0)
    ELSE Ok([cnt \in 1..Len(RangeSlice(lonMax, slices_lot)) |->
                LonValue(RangeSlice(lonMax, slices_lot)[cnt])])

read_variable_lon(slices_lot) ==
    IF slices_lot.step = 0 THEN Raise("ValueError", "", 0)
    ELSE Ok([cnt \in 1..Len(RangeSlice(lonMax + 1, slices_lot)) |->
                LonValue(RangeSlice(LON_SIZE, slices_lot)[cnt])])

read_variable_lat(slices_lat) ==
    IF slices_lat.step = 0 THEN Raise("ValueError", "", 0)
    ELSE Ok([cnt \in 1..Len(RangeSlice(latMax + 1, slices_lat)) |->
                LatValue(RangeSlice(LAT_SIZE, slices_lat)[cnt])])

read_variable_part(slices_part) ==
    IF slices_part.step = 0 THEN Raise("ValueError", "", 0)
    ELSE Ok([cnt \in 1..Len(RangeSlice(PART_SIZE, slices_part)) |->
                RangeSlice(PART_SIZE, slices_part)[cnt]])

---------------------------------------------------------------------------
(* The decoder *)

byteIndex_novar(i, j, index, k) ==
    (LON_SIZE * j + i) + (PlaneSize * NUM_VARIABLES * k)

byteIndex(i, j, index, k) ==
    (LON_SIZE * j + i) + (PlaneSize * index) + (PlaneSize * NUM_VARIABLES * k)

\* buf[p] of a numpy axis of length n: a negative p counts from the end
NpInRange(p, n) == -n <= p /\ p < n
NpIndex(p, n) == IF p < 0 THEN p + n ELSE p

\* The place m of index c in range(n)[s] (1 for the first); 0 when the
\* slice does not select c.
Rank(n, s, c) ==
    IF /\ SliceStart(s, n) <= c
       /\ c < SliceStart(s, n) + SliceLen(s, n) * s.step
       /\ (c - SliceStart(s, n)) % s.step = 0
    THEN ((c - SliceStart(s, n)) \div s.step) + 1
    ELSE 0

\* The last m, in loop order, for which the loop over range(n)[s] stores
\* at position p of the axis (p = c - s.start, or that less the axis
\* length when it is negative); 0 when the loop stores nothing there.
LastWriter(n, s, p) ==
    Max(Rank(n, s, s.start + p), Rank(n, s, s.start + p - SliceLen(s, n)))

\* garbage is what np.empty left in a cell the loops never store to
read_variable_data(bytes, index, slices, garbage) ==
    IF \E a \in 1..3 : slices[a].step = 0 THEN Raise("ValueError", "", 0)
    ELSE
    LET is == RangeSlice(LON_SIZE, slices[1])
        js == RangeSlice(LAT_SIZE, slices[2])
        ks == RangeSlice(PART_SIZE, slices[3])
        fault ==
            \E a \in 1..Len(is), b \in 1..Len(js), c \in 1..Len(ks) :
                \/ byteIndex(is[a], js[b], index, ks[c]) >= bytes.size
                \/ ~NpInRange(is[a] - slices[1].start, Len(is))
                \/ ~NpInRange(js[b] - slices[2].start, Len(js))
                \/ ~NpInRange(ks[c] - slices[3].start, Len(ks))
        wi == [p \in 0..(Len(is) - 1) |-> LastWriter(LON_SIZE, slices[1], p)]
        wj == [p \in 0..(Len(js) - 1) |-> LastWriter(LAT_SIZE, slices[2], p)]
        wk == [p \in 0..(Len(ks) - 1) |-> LastWriter(PART_SIZE, slices[3], p)]
    IN IF fault THEN Raise("IndexError", "", 0)
       ELSE Ok([shape |-> <<Len(is), Len(js), Len(ks)>>,
                elems |-> [p \in (0..(Len(is) - 1)) \X (0..(Len(js) - 1))
                                    \X (0..(Len(ks) - 1)) |->
                    IF wi[p[1]] = 0 \/ wj[p[2]] = 0 \/ wk[p[3]] = 0
                    THEN garbage
                    ELSE FileByte(bytes,
                            byteIndex(is[wi[p[1]]], js[wj[p[2]]], index, ks[wk[p[3]]]))]])

---------------------------------------------------------------------------
(* The handler's state after __init__: every .data is None *)

NoData == {}
CoordinateEntry == [data |-> NoData]
GridEntry == [array |-> NoData, lon |-> NoData, lat |-> NoData, part_of_day |-> NoData]
InitDataset ==
    [name \in CoordinateNames \cup VariableNames |->
        IF name \in CoordinateNames THEN CoordinateEntry ELSE GridEntry]

---------------------------------------------------------------------------
(* Inputs *)

Files ==
    { [readable |-> TRUE, seed |-> 0, size |-> FullSize],
      [readable |-> TRUE, seed |-> 100, size |-> FullSize],
      [readable |-> TRUE, seed |-> 0, size |-> FullSize \div 2],
      [readable |-> FALSE, seed |-> 0, size |-> 0] }

Steps == 0..MaxStep
LonStarts == {0, 171, 1439, 1440}
LatStarts == {0, 273, 719, 720}
PartStarts == {0, 1, 2}
Windows(starts) ==
    {[start |-> a, stop |-> a + d, step |-> c] : a \in starts, d \in 0..MaxSpan, c \in Steps}
\* the windows of the decoder's calls: the shortest and the longest span,
\* the unit and the largest step
DataWindows(starts) ==
    {w \in Windows(starts) :
        /\ w.stop - w.start \in {1, MaxSpan}
        /\ w.step \in {1, MaxStep}}
FullWindow(n) == [start |-> 0, stop |-> n, step |-> 1]
One(a) == [start |-> a, stop |-> a + 1, step |-> 1]
Garbage == {0, 65535}

CoordinateCalls ==
    {[op |-> "read_variable_lon", index |-> 0, slices |-> <<w>>] : w \in Windows(LonStarts) \cup {FullWindow(LON_SIZE)}}
    \cup {[op |-> "read_variable_lat", index |-> 0, slices |-> <<w>>] : w \in Windows(LatStarts) \cup {FullWindow(LAT_SIZE)}}
    \cup {[op |-> "read_variable_part", index |-> 0, slices |-> <<w>>] : w \in Windows(PartStarts) \cup {FullWindow(PART_SIZE)}}
DataCalls ==
    {[op |-> "read_variable_data", index |-> v, slices |-> <<a, b, c>>] :
        v \in 0..(NUM_VARIABLES - 1), a \in DataWindows(LonStarts),
        b \in DataWindows(LatStarts), c \in DataWindows(PartStarts)}
ZeroStepCalls ==
    {[op |-> "read_variable_data", index |-> 1, slices |-> s] :
        s \in { <<[start |-> 171, stop |-> 172, step |-> 0], One(273), One(0)>>,
                <<One(171), [start |-> 273, stop |-> 278, step |-> 0], One(0)>>,
                <<One(171), One(273), [start |-> 0, stop |-> 2, step |-> 0]>> }}
FullAxisCalls ==
    {[op |-> "read_variable_data", index |-> v, slices |-> s] :
        v \in {1, 4},
        s \in { <<FullWindow(LON_SIZE), One(273), FullWindow(PART_SIZE)>>,
                <<One(171), FullWindow(LAT_SIZE), FullWindow(PART_SIZE)>> }}

---------------------------------------------------------------------------
(* SpecRead: one call of a coordinate generator or of the decoder on a     *)
(* freshly constructed handler                                             *)

InitRead ==
    /\ file \in {f \in Files : f.readable}
    /\ dataset = InitDataset
    /\ request \in CoordinateCalls \cup DataCalls \cup ZeroStepCalls \cup FullAxisCalls
    /\ response = Pending

ReadVariableLon ==
    /\ request.op = "read_variable_lon"
    /\ response = Pending
    /\ response' = read_variable_lon(request.slices[1])
    /\ UNCHANGED <<file, dataset, request>>

ReadVariableLat ==
    /\ request.op = "read_variable_lat"
    /\ response = Pending
    /\ response' = read_variable_lat(request.slices[1])
    /\ UNCHANGED <<file, dataset, request>>

ReadVariablePart ==
    /\ request.op = "read_variable_part"
    /\ response = Pending
    /\ response' = read_variable_part(request.slices[1])
    /\ UNCHANGED <<file, dataset, request>>

ReadVariableData ==
    /\ request.op = "read_variable_data"
    /\ response = Pending
    /\ \E garbage \in Garbage :
          response' = read_variable_data(file, request.index, request.slices, garbage)
    /\ UNCHANGED <<file, dataset, request>>

NextRead == ReadVariableLon \/ ReadVariableLat \/ ReadVariablePart \/ ReadVariableData

SpecRead == InitRead /\ [][NextRead]_vars

---------------------------------------------------------------------------
(* parse_constraints *)

\* the position of a name in self.variables, from 0
VariableIndex(var_name) ==
    CHOOSE i \in 0..(Len(variables) - 1) : variables[i + 1] = var_name

SlicesMalformed_short(slices) == Len(slices) < 3

\* len(slices) != 3
SlicesMalformed(slices) == Len(slices) # 3

\* One turn of the loop over the projection: what it leaves in self.dataset
\* and whether it raised.  var is a sequence of tokens [name, slices].
ProcessVar(ds, bytes, var, garbage) ==
    LET var_name == var[Len(var)].name
        slices == var[Len(var)].slices
    IN
    IF var_name \in {"lat", "lon", "part_of_day"}
    THEN \* read_variable_lon(), _lat(), _part() are called without their argument
         [dataset |-> ds, status |-> Raise("TypeError", var_name, 0)]
    ELSE IF var_name \notin VariableNames
    THEN [dataset |-> ds, status |-> Ok(0)]
    ELSE IF SlicesMalformed(slices)
    THEN [dataset |-> ds, status |-> Raise("ValueError", var_name, Len(slices))]
    ELSE
    LET index == VariableIndex(var_name)
        lon == read_variable_lon(slices[1])
        ds1 == [ds EXCEPT ![var_name].lon = {lon.value}]
        lat == read_variable_lat(slices[2])
        ds2 == [ds1 EXCEPT ![var_name].lat = {lat.value}]
        part == read_variable_part(slices[3])
        ds3 == [ds2 EXCEPT ![var_name].part_of_day = {part.value}]
        data == read_variable_data(bytes, index, slices, garbage)
        ds4 == [ds3 EXCEPT ![var_name].array = {data.value}]
    IN
    IF lon.kind = "error" THEN [dataset |-> ds, status |-> lon]
    ELSE IF lat.kind = "error" THEN [dataset |-> ds1, status |-> lat]
    ELSE IF part.kind = "error" THEN [dataset |-> ds2, status |-> part]
    ELSE IF data.kind = "error" THEN [dataset |-> ds3, status |-> data]
    ELSE [dataset |-> ds4, status |-> Ok(0)]

\* The loop over the projection: st[m] is self.dataset and the outcome after
\* the m-th name; the loop stops at the first name that raises.
ProcessProjection(ds, bytes, projection, garbage) ==
    LET st[m \in 0..Len(projection)] ==
            IF m = 0 THEN [dataset |-> ds, status |-> Ok(0)]
            ELSE IF st[m - 1].status.kind = "error" THEN st[m - 1]
            ELSE ProcessVar(st[m - 1].dataset, bytes, projection[m], garbage)
    IN st[Len(projection)]

\* The copy of the dataset with every key dropped that is not the first
\* name of a projected variable
Prune(ds, projection) ==
    LET val_arr == {projection[n][1].name : n \in 1..Len(projection)}
    IN [key \in {k \in DOMAIN ds : k \in val_arr} |-> ds[key]]

\* [dataset |-> self.dataset after the call, response |-> what the call
\*  returned or raised]
parse_constraints(ds, f, projection, garbage) ==
    IF projection = <<>> THEN [dataset |-> ds, response |-> Ok(ds)]
    ELSE IF ~f.readable
    THEN [dataset |-> ds, response |-> Raise("OpenFileError", "", 0)]
    ELSE LET r == ProcessProjection(ds, f, projection, garbage)
         IN IF r.status.kind = "error"
            THEN [dataset |-> r.dataset, response |-> r.status]
            ELSE [dataset |-> r.dataset, response |-> Ok(Prune(r.dataset, projection))]

---------------------------------------------------------------------------
(* The requests of Spec *)

\* the window of _test, wspd[171:1:171][273:1:277][0], with the bound for
\* its span
Scenario == <<One(171), [start |-> 273, stop |-> 273 + MaxSpan, step |-> 1], One(0)>>
Strided == <<[start |-> 0, stop |-> MaxSpan, step |-> MaxStep], One(0), FullWindow(PART_SIZE)>>
StridedOne == <<[start |-> 171, stop |-> 172, step |-> MaxStep], One(273), One(1)>>
OutOfAxis == <<One(LON_SIZE), One(0), One(0)>>
ZeroStep == <<One(171), [start |-> 273, stop |-> 273 + MaxSpan, step |-> 0], One(0)>>
NoSlices == <<>>
OneSlice == <<One(0)>>
TwoSlices == <<One(171), One(273)>>
FourSlices == <<One(171), One(273), One(0), One(0)>>

Token(name, slices) == [name |-> name, slices |-> slices]
CoordinateVars ==
    {<<Token(n, s)>> : n \in CoordinateNames, s \in {NoSlices, OneSlice}}
DataVars ==
    {<<Token("wspd", s)>> :
        s \in {NoSlices, TwoSlices, FourSlices, Scenario, Strided, OutOfAxis, ZeroStep}}
    \cup {<<Token("rain", s)>> : s \in {NoSlices, Scenario, StridedOne}}
UnknownVars == {<<Token("humidity", s)>> : s \in {NoSlices, Scenario}}
NestedVars ==
    { <<Token("wspd", NoSlices), Token("wspd", Scenario)>>,
      <<Token("lon", NoSlices), Token("rain", Scenario)>>,
      <<Token("wspd", NoSlices), Token("lon", NoSlices)>>,
      <<Token("wspd", NoSlices), Token("humidity", NoSlices)>> }
Vars == CoordinateVars \cup DataVars \cup UnknownVars \cup NestedVars
\* the first of two projected variables
FirstVars ==
    { <<Token("wspd", Scenario)>>, <<Token("wspd", OutOfAxis)>>,
      <<Token("rain", Scenario)>>, <<Token("humidity", NoSlices)>> }
Projections ==
    {<<>>} \cup {<<v>> : v \in Vars} \cup {<<v, w>> : v \in FirstVars, w \in Vars}

---------------------------------------------------------------------------
(* Spec: requests served one after another by one handler *)

Idle == [op |-> "idle"]

Init ==
    /\ file \in Files
    /\ dataset = InitDataset
    /\ request = Idle
    /\ response = Pending

\* one call of parse_constraints, from its first line to its return or raise
ParseConstraints ==
    /\ request = Idle
    /\ \E projection \in Projections, garbage \in Garbage :
          LET r == parse_constraints(dataset, file, projection, garbage)
          IN /\ request' = [op |-> "parse_constraints", projection |-> projection]
             /\ response' = r.response
             /\ dataset' = r.dataset
    /\ UNCHANGED file

\* the caller takes the response; the handler object stays for the next call
Return ==
    /\ request # Idle
    /\ request' = Idle
    /\ response' = Pending
    /\ UNCHANGED <<file, dataset>>

Next == ParseConstraints \/ Return

Spec == Init /\ [][Next]_vars

---------------------------------------------------------------------------
(* Claims about the decoder and the coordinate generators, under SpecRead  *)

ValidWindow(w, n) == 0 <= w.start /\ w.start < w.stop /\ w.stop <= n /\ w.step >= 1
\* the indices of the axis that a unit-step window covers
UnitWindow(w, n) == {i \in w.start..(w.stop - 1) : 0 <= i /\ i < n}
\* the indices start, start + step, ... below stop
Strides(w) == {i \in w.start..(w.stop - 1) : (i - w.start) % w.step = 0}
Ceil(a, b) == (a + b - 1) \div b
Decoded == request.op = "read_variable_data" /\ response # Pending

\* C1: for every variable index and every unit-step window over lon, lat
\* and part_of_day, read_variable_data returns an array whose element for
\* source index (i, j, k) is the byte of the buffer at offset
\* (1440*j + i) + (1440*720*v) + (1440*720*5*k), and the buffer is left as
\* it was.  (A buffer of the full size is the claim's premise.)
C1_UnitStepDecode ==
    [][ ( /\ request'.op = "read_variable_data"
          /\ response' # Pending
          /\ file'.size = 1440 * 720 * 5 * 2
          /\ \A a \in 1..3 : request'.slices[a].step = 1 )
        => /\ file' = file
           /\ response'.kind = "ok"
           /\ LET s == request'.slices
                  v == request'.index
              IN \A i \in UnitWindow(s[1], 1440), j \in UnitWindow(s[2], 720),
                    k \in UnitWindow(s[3], 2) :
                    response'.value.elems[<<i - s[1].start, j - s[2].start, k - s[3].start>>]
                        = FileByte(file, (1440 * j + i) + (1440 * 720 * v)
                                            + (1440 * 720 * 5 * k)) ]_vars

\* a whole longitude axis and both parts of the day decoded for the last variable
C1_Witness ==
    /\ Decoded
    /\ request.index = 4
    /\ request.slices[1] = FullWindow(1440)
    /\ request.slices[3] = FullWindow(2)
    /\ response.kind = "ok"
    /\ response.value.shape = <<1440, 1, 2>>

\* C2: read_variable_data honours any step >= 1 on each axis: the sample of
\* source index (i, j, k) is stored at ((i - lon.start)/lon.step,
\* (j - lat.start)/lat.step, (k - part.start)/part.step), inside the output
\* array, and the decode ends without an index error.
C2_StridedDecode ==
    ( /\ Decoded
      /\ file.size = 1440 * 720 * 5 * 2
      /\ ValidWindow(request.slices[1], 1440)
      /\ ValidWindow(request.slices[2], 720)
      /\ ValidWindow(request.slices[3], 2) )
    => /\ response.kind = "ok"
       /\ LET s == request.slices
              v == request.index
          IN \A i \in Strides(s[1]), j \in Strides(s[2]), k \in Strides(s[3]) :
                LET p == << (i - s[1].start) \div s[1].step,
                            (j - s[2].start) \div s[2].step,
                            (k - s[3].start) \div s[3].step >>
                IN /\ p \in DOMAIN response.value.elems
                   /\ response.value.elems[p]
                        = FileByte(file, (1440 * j + i) + (1440 * 720 * v)
                                            + (1440 * 720 * 5 * k))

\* C3: for each coordinate generator and any window with
\* 0 <= start < stop <= axis size and step >= 1, the number of values is
\* ceil((stop - start)/step) and the n-th value is the coordinate of source
\* index start + (n-1)*step, which lies in [start, stop).
C3_WindowLengthLaw ==
    \A g \in { [op |-> "read_variable_lon", size |-> 1440],
               [op |-> "read_variable_lat", size |-> 720],
               [op |-> "read_variable_part", size |-> 2] } :
        ( /\ request.op = g.op
          /\ response # Pending
          /\ ValidWindow(request.slices[1], g.size) )
        => LET w == request.slices[1]
           IN /\ response.kind = "ok"
              /\ Len(response.value) = Ceil(w.stop - w.start, w.step)
              /\ \A n \in 1..Len(response.value) :
                    LET i == w.start + (n - 1) * w.step
                    IN /\ w.start <= i /\ i < w.stop
                       /\ response.value[n] =
                            CASE g.op = "read_variable_lon" -> 2 * i + 1
                              [] g.op = "read_variable_lat" -> 2 * i - 721
                              [] OTHER -> i

\* a strided longitude window that ends at the end of the axis
C3_Witness ==
    /\ request.op = "read_variable_lon"
    /\ request.slices[1].stop = 1440
    /\ request.slices[1].step = 2
    /\ response.kind = "ok"
    /\ Len(response.value) >= 1

\* C7: a window (of step >= 1) whose start or stop lies outside its axis
\* is rejected with an OutOfRange error; it is never clamped and no
\* shortened or empty array is returned.
C7_OutOfRangeRejected ==
    LET size == [a \in 1..3 |->
                    CASE request.op = "read_variable_lat" -> 720
                      [] request.op = "read_variable_part" -> 2
                      [] request.op = "read_variable_data" -> <<1440, 720, 2>>[a]
                      [] OTHER -> 1440]
    IN ( /\ request.op \in {"read_variable_lon", "read_variable_lat",
                            "read_variable_part", "read_variable_data"}
         /\ response # Pending
         /\ \A a \in 1..Len(request.slices) : request.slices[a].step >= 1
         /\ \E a \in 1..Len(request.slices) :
                \/ request.slices[a].start >= size[a]
                \/ request.slices[a].stop > size[a] )
       => /\ response.kind = "error"
          /\ response.type = "OutOfRange"

---------------------------------------------------------------------------
(* Claims about parse_constraints, under Spec                              *)

Served == request.op = "parse_constraints"
\* the name a projected variable asks for, and its window-spec
AskedName(var) == var[Len(var)].name
AskedSlices(var) == var[Len(var)].slices
\* the names the projection lists at top level
Listed(projection) == {projection[n][1].name : n \in 1..Len(projection)}
KnownNames == {"lon", "lat", "part_of_day", "time", "wspd", "vapor", "cloud", "rain"}
\* a data variable asked for with three unit-step windows
WellFormed(var) ==
    /\ AskedName(var) \in {"time", "wspd", "vapor", "cloud", "rain"}
    /\ Len(AskedSlices(var)) = 3
    /\ \A a \in 1..3 : AskedSlices(var)[a].step = 1

\* C4: when a request with a projection ends without an error, the keys of
\* the returned dataset are exactly the names the projection lists.
C4_ProjectionFilter ==
    (Served /\ request.projection # <<>> /\ response.kind = "ok")
    => DOMAIN response.value = Listed(request.projection)

\* C5: a request that asks for a name that is neither a coordinate nor one
\* of the five variables fails, with an UnknownVariable error when that name
\* is the whole projection, instead of returning a result.
C5_UnknownVariable ==
    ( /\ Served
      /\ file.readable
      /\ \E n \in 1..Len(request.projection) :
            AskedName(request.projection[n]) \notin KnownNames )
    => /\ response.kind = "error"
       /\ Len(request.projection) = 1 => response.type = "UnknownVariable"

\* C6: a request for a data variable whose window-spec does not have
\* exactly 3 windows fails with the error that names the variable and the
\* count found (ValueError in the source), and nothing is decoded for that
\* variable: its entry in the dataset stays as it was.  The error is that of
\* the malformed name when every name before it is a well-formed request
\* on a complete file.
C6_MalformedSelection ==
    [][ ( /\ request = Idle
          /\ request'.op = "parse_constraints"
          /\ file.readable )
        => \A m \in 1..Len(request'.projection) :
              LET p == request'.projection
                  name == AskedName(p[m])
                  count == Len(AskedSlices(p[m]))
              IN ( /\ name \in {"time", "wspd", "vapor", "cloud", "rain"}
                   /\ count # 3 )
                 => /\ response'.kind = "error"
                    /\ ( /\ m > 1 => file.size = 1440 * 720 * 5 * 2
                         /\ \A e \in 1..(m - 1) : WellFormed(p[e]) )
                       => response' = Raise("ValueError", name, count)
                    /\ (\A e \in 1..(m - 1) : AskedName(p[e]) # name)
                       => dataset'[name] = dataset[name] ]_vars

\* wspd asked for with four windows, after a well-formed request for rain
C6_Witness ==
    /\ Served
    /\ Len(request.projection) = 2
    /\ request.projection[1] = <<Token("rain", Scenario)>>
    /\ request.projection[2] = <<Token("wspd", FourSlices)>>
    /\ response = Raise("ValueError", "wspd", 4)
    /\ dataset["wspd"].array = NoData

\* C8: the result of a request depends only on the file and on the
\* request's projection: it is the result the same request gives on a
\* handler that has served nothing before.
C8_Stateless ==
    Served =>
        \E garbage \in Garbage :
            response = parse_constraints(InitDataset, file, request.projection, garbage).response

\* C9: when processing a projection ends in an error, no output of any name
\* has been written into self.dataset, the structure results are built from.
C9_ValidateThenProduce ==
    [][ ( /\ request = Idle
          /\ request'.op = "parse_constraints"
          /\ response'.kind = "error" )
        => dataset' = dataset ]_vars

\* C10: a request that names one coordinate succeeds, and the result holds
\* for that name the coordinate values of the window asked for (of the
\* whole axis when no window is given).
C10_CoordinateRequest ==
    \A g \in { [name |-> "lon", size |-> 1440],
               [name |-> "lat", size |-> 720],
               [name |-> "part_of_day", size |-> 2] } :
        ( /\ Served
          /\ file.readable
          /\ Len(request.projection) = 1
          /\ Len(request.projection[1]) = 1
          /\ request.projection[1][1].name = g.name
          /\ Len(request.projection[1][1].slices) <= 1 )
        => LET spec == request.projection[1][1].slices
               w == IF spec = <<>> THEN FullWindow(g.size) ELSE spec[1]
               idx == RangeSlice(g.size, w)
           IN /\ response.kind = "ok"
              /\ response.value[g.name].data =
                    { [n \in 1..Len(idx) |->
                        CASE g.name = "lon" -> 2 * idx[n] + 1
                          [] g.name = "lat" -> 2 * idx[n] - 721
                          [] OTHER -> idx[n]] }

====
